---- MODULE Spec2Model ----
(***************************************************************************)
(* DealPulse: the product-extraction core.                                 *)
(*                                                                         *)
(*   app/adapters/factory.py        AdapterFactory (registry, resolve)     *)
(*   app/adapters/html_adapter.py   HtmlAdapter (heuristic markup)         *)
(*   app/adapters/jsonld_adapter.py JsonLdAdapter (structured data)        *)
(*                                                                         *)
(* Python values are modelled as follows.                                  *)
(*   str    a tuple of one-character strings, <<"a", "b">> for 'ab'        *)
(*   float  an integer number of hundredths (49.99 is 4999); the texts     *)
(*          the model feeds in carry at most two fractional digits         *)
(*   JSON   a tagged record: Str, Num, Lst, Dct, Null (Null is also        *)
(*          Python's None)                                                 *)
(***************************************************************************)
EXTENDS Integers, Sequences, FiniteSets, TLC

(* ------------------------------ bounds -------------------------------- *)

\* add_adapter calls made on one factory
MaxAdds == 2

\* the characters of a price text drawn from TextAlphabet
MaxText == 3

\* the offers of a Product
MaxOffers == 3

\* the largest price given to calculate_price_drop_percentage
MaxAmount == 5

\* the products that POST /products creates
MaxProducts == 1

\* the jobs that scraping_queue holds
MaxQueue == 2

\* the hours that the clock runs, and the hours of one step of it
MaxClock == 24

TickHours == 12

(* --------------------------- Python strings --------------------------- *)

Digits == {"0", "1", "2", "3", "4", "5", "6", "7", "8", "9"}

DigitVal(c) ==
    CASE c = "0" -> 0 [] c = "1" -> 1 [] c = "2" -> 2 [] c = "3" -> 3
      [] c = "4" -> 4 [] c = "5" -> 5 [] c = "6" -> 6 [] c = "7" -> 7
      [] c = "8" -> 8 [] c = "9" -> 9

\* str.isspace of one character
Whitespace == {" "}

\* one float unit is 1/Scale
Scale == 100

SetMin(S) == CHOOSE m \in S : \A k \in S : m <= k

SetMax(S) == CHOOSE m \in S : \A k \in S : m >= k

\* s[i..j], empty when j < i
Slice(s, i, j) == IF j < i THEN <<>> ELSE SubSeq(s, i, j)

\* str.strip()
Strip(s) ==
    LET keep == {k \in 1..Len(s) : s[k] \notin Whitespace}
    IN  IF keep = {} THEN <<>> ELSE SubSeq(s, SetMin(keep), SetMax(keep))

\* str.replace(c, '') for a one-character c
RECURSIVE Remove(_, _)
Remove(s, c) ==
    IF s = <<>> THEN <<>>
    ELSE IF Head(s) = c THEN Remove(Tail(s), c)
    ELSE <<Head(s)>> \o Remove(Tail(s), c)

\* sub in s
Contains(s, sub) ==
    \E i \in 1..(Len(s) - Len(sub) + 1) : SubSeq(s, i, i + Len(sub) - 1) = sub

\* ' '.join(list of str)
RECURSIVE JoinSpace(_)
JoinSpace(ss) ==
    IF ss = <<>> THEN <<>>
    ELSE IF Len(ss) = 1 THEN ss[1]
    ELSE ss[1] \o <<" ">> \o JoinSpace(Tail(ss))

\* the index of the last character of the run of digits that starts at i;
\* i - 1 when s[i] is no digit
DigitsEnd(s, i) ==
    LET stops == {k \in i..Len(s) : s[k] \notin Digits}
    IN  IF stops = {} THEN Len(s) ELSE SetMin(stops) - 1

\* the value of a run of digits
RECURSIVE DigitsValue(_)
DigitsValue(ds) ==
    IF ds = <<>> THEN 0
    ELSE DigitsValue(SubSeq(ds, 1, Len(ds) - 1)) * 10 + DigitVal(ds[Len(ds)])

ValueError == [ok |-> FALSE, v |-> 0]

Float(n) == [ok |-> TRUE, v |-> n]

\* the digits after the point as hundredths
Hundredths(fp) == DigitsValue(SubSeq(fp \o <<"0", "0">>, 1, 2))

\* digits '.' digits, where e1 ends the digits before the point and e2
\* those after it: the text must end there and hold a digit
ParseFraction(body, e1, e2) ==
    IF e2 # Len(body) \/ (e1 = 0 /\ e2 = 1) THEN ValueError
    ELSE Float(DigitsValue(Slice(body, 1, e1)) * Scale
               + Hundredths(Slice(body, e1 + 2, e2)))

\* the text after the sign, where e1 ends its leading digits
ParseDigits(body, e1) ==
    IF e1 < Len(body) /\ body[e1 + 1] = "."
      THEN ParseFraction(body, e1, DigitsEnd(body, e1 + 2))
    ELSE IF e1 = Len(body) /\ e1 > 0 THEN Float(DigitsValue(body) * Scale)
    ELSE ValueError

\* the sign of s applied to the value of the rest
Signed(s, f) == IF s[1] = "-" /\ f.ok THEN Float(0 - f.v) ELSE f

Unsigned(s) == IF s[1] \in {"-", "+"} THEN Tail(s) ELSE s

ParseStripped(s, body) ==
    IF s = <<>> THEN ValueError ELSE Signed(s, ParseDigits(body, DigitsEnd(body, 1)))

\* float(str): surrounding whitespace, an optional sign, digits with at
\* most one point and at least one digit. Everything else is a ValueError
\* (the model's alphabet has no exponent, inf, nan or underscore).
ParseFloat(raw) ==
    ParseStripped(Strip(raw), IF Strip(raw) = <<>> THEN <<>> ELSE Unsigned(Strip(raw)))

(* ----------------------------- JSON values ---------------------------- *)

Null == [t |-> "null"]

Str(s) == [t |-> "str", v |-> s]

Num(n) == [t |-> "num", v |-> n]

Lst(q) == [t |-> "list", v |-> q]

Dct(f) == [t |-> "dict", v |-> f]

IsDict(x) == x.t = "dict"

IsList(x) == x.t = "list"

IsStr(x) == x.t = "str"

\* bool(x)
Truthy(x) ==
    CASE x.t = "null" -> FALSE
      [] x.t = "str"  -> x.v # <<>>
      [] x.t = "num"  -> x.v # 0
      [] x.t = "list" -> x.v # <<>>
      [] x.t = "dict" -> DOMAIN x.v # {}

\* dict.get(key, default)
Get(d, key, default) == IF key \in DOMAIN d.v THEN d.v[key] ELSE default

\* float(x) of a JSON value: TypeError (reported like ValueError, the
\* callers catch both) for None, list and dict
ToFloat(x) ==
    CASE x.t = "num" -> Float(x.v)
      [] x.t = "str" -> ParseFloat(x.v)
      [] OTHER       -> ValueError

(* ----------------------------- adapters/base --------------------------- *)

\* ProductInfo(name, price), as the value of an Optional[ProductInfo]
ProductInfo(name, price) == [tag |-> "Found", name |-> name, price |-> price]

\* None, as the value of an Optional[ProductInfo]
NoInfo == [tag |-> "None", name |-> <<>>, price |-> 0]

\* None, as the value of an Optional[float]
NoFloat == [ok |-> FALSE, v |-> 0]

\* None, as the value of an Optional[str] (the extractors never return '')
NoName == <<>>

\* requests' response: the page that the URL serves, or a RequestException
\* (connection failure, timeout, raise_for_status)
RequestException == [status |-> "error"]

\* a response that the parser (BeautifulSoup, extruct.extract) raises on
ParserError == [status |-> "unparseable"]

\* soup.select(css): the raw texts of the matching elements in document
\* order (for a meta selector, their content attributes)
Select(page, css) == IF css \in DOMAIN page.dom THEN page.dom[css] ELSE <<>>

\* urlparse(url): the model's URLs are given parsed, [scheme, netloc];
\* hostname is the host of the netloc in lower case
Lower(c) ==
    CASE c = "A" -> "a" [] c = "B" -> "b" [] c = "C" -> "c" [] c = "D" -> "d"
      [] c = "E" -> "e" [] c = "F" -> "f" [] c = "G" -> "g" [] c = "H" -> "h"
      [] c = "I" -> "i" [] c = "J" -> "j" [] c = "K" -> "k" [] c = "L" -> "l"
      [] c = "M" -> "m" [] c = "N" -> "n" [] c = "O" -> "o" [] c = "P" -> "p"
      [] c = "Q" -> "q" [] c = "R" -> "r" [] c = "S" -> "s" [] c = "T" -> "t"
      [] c = "U" -> "u" [] c = "V" -> "v" [] c = "W" -> "w" [] c = "X" -> "x"
      [] c = "Y" -> "y" [] c = "Z" -> "z"
      [] OTHER -> c

\* the netloc without the port (the model's netlocs have no userinfo)
HostPart(netloc) ==
    Slice(netloc, 1, SetMin({k \in DOMAIN netloc : netloc[k] = ":"} \cup {Len(netloc) + 1}) - 1)

Hostname(url) ==
    LET host == HostPart(url.netloc) IN [k \in 1..Len(host) |-> Lower(host[k])]

(* ------------------------ adapters/html_adapter ----------------------- *)

\* the bounds of a reasonable price, 0.01 and 999999
MinPrice == 1

MaxPrice == 99999900

\* the class [\$£€¥₹]
Currency == {"$", "GBP", "EUR", "JPY", "INR"}

\* a supports_url that forgets https
Html_supports_url_HttpOnly(url) ==
    url.netloc # <<>> /\ url.scheme \in {"http"}

Html_supports_url(url) ==
    url.netloc # <<>> /\ url.scheme \in {"http", "https"}

\* urlparse(url) raises ValueError: the netloc holds one bracket of an
\* IPv6 host and not the other
UrlparseRaises(url) ==
    (\E k \in DOMAIN url.netloc : url.netloc[k] = "[")
      # (\E k \in DOMAIN url.netloc : url.netloc[k] = "]")

\* HtmlAdapter.supports_url as a call: the try around urlparse and the
\* except that returns False
Html_supports_url_try(url) ==
    IF UrlparseRaises(url) THEN "False"
    ELSE IF Html_supports_url(url) THEN "True" ELSE "False"

\* the optional [,.] and the optional \. after a run of digits ending at e
AfterSeparator(s, e) ==
    IF e < Len(s) /\ s[e + 1] \in {",", "."} THEN e + 1 ELSE e

AfterPoint(s, e) ==
    IF e < Len(s) /\ s[e + 1] = "." THEN e + 1 ELSE e

\* the last index of the match of \d+[,.]?\d*\.?\d* at the digit s[i]:
\* every part after \d+ is optional, so the greedy match never backtracks
NumberEnd(s, i) ==
    DigitsEnd(s, AfterPoint(s, DigitsEnd(s, AfterSeparator(s, DigitsEnd(s, i)) + 1)) + 1)

\* the first index from i on that holds no whitespace (\s*)
SkipSpace(s, i) ==
    LET rest == {k \in i..Len(s) : s[k] \notin Whitespace}
    IN  IF rest = {} THEN Len(s) + 1 ELSE SetMin(rest)

price_patterns == <<"symbol_before", "symbol_after", "bare">>

NoMatch == [ok |-> FALSE, group |-> <<>>, last |-> 0]

\* a match whose group is s[j..e] and whose last character is s[last]
Matched(s, j, e, last) == [ok |-> TRUE, group |-> SubSeq(s, j, e), last |-> last]

\* [\$...]\s*(number): the symbol at s[i], the number from s[j], to s[e]
SymbolBefore(s, i, j, e) ==
    IF s[i] \in Currency /\ j <= Len(s) /\ s[j] \in Digits
      THEN Matched(s, j, e, e) ELSE NoMatch

\* (number)\s*[\$...]: the number s[i..e], the symbol at s[c]
SymbolAfter(s, i, e, c) ==
    IF s[i] \in Digits /\ c <= Len(s) /\ s[c] \in Currency
      THEN Matched(s, i, e, c) ELSE NoMatch

\* (number): s[i..e]
Bare(s, i, e) == IF s[i] \in Digits THEN Matched(s, i, e, e) ELSE NoMatch

\* the match of the pattern that starts at s[i], NoMatch when there is none
MatchAt(pattern, s, i) ==
    CASE pattern = "symbol_before" ->
            SymbolBefore(s, i, SkipSpace(s, i + 1), NumberEnd(s, SkipSpace(s, i + 1)))
      [] pattern = "symbol_after" ->
            SymbolAfter(s, i, NumberEnd(s, i), SkipSpace(s, NumberEnd(s, i) + 1))
      [] pattern = "bare" -> Bare(s, i, NumberEnd(s, i))

\* re.findall(pattern, s) from index p on: the groups of the leftmost
\* non-overlapping matches
RECURSIVE FindAll(_, _, _)
FindNext(pattern, s, m) == <<m.group>> \o FindAll(pattern, s, m.last + 1)

FindFirst(pattern, s, starts) ==
    IF starts = {} THEN <<>> ELSE FindNext(pattern, s, MatchAt(pattern, s, SetMin(starts)))

FindAll(pattern, s, p) ==
    FindFirst(pattern, s, {i \in p..Len(s) : MatchAt(pattern, s, i).ok})

\* the matches of all the patterns, in pattern order and then match order
RECURSIVE AllMatches(_, _)
AllMatches(text, patterns) ==
    IF patterns = <<>> THEN <<>>
    ELSE FindAll(Head(patterns), text, 1) \o AllMatches(text, Tail(patterns))

\* 0.01 <= price <= 999999
Reasonable(price) == MinPrice <= price /\ price <= MaxPrice

\* one match of _parse_price_text: the cleaned match as a float, which
\* counts when it parses and is reasonable
CleanMatch(match) == ParseFloat(Remove(match, ","))

Accepted(f) == f.ok /\ Reasonable(f.v)

FirstAccepted(ms, good) ==
    IF good = {} THEN NoFloat ELSE CleanMatch(ms[SetMin(good)])

ParseMatches(ms) ==
    FirstAccepted(ms, {k \in 1..Len(ms) : Accepted(CleanMatch(ms[k]))})

Html_parse_price_text(text, patterns) ==
    IF text = <<>> THEN NoFloat ELSE ParseMatches(AllMatches(text, patterns))

\* the selectors of _extract_name; meta is selector.startswith('meta')
name_selectors ==
    << [css |-> "h1",                              meta |-> FALSE],
       [css |-> "[data-testid*=product-title]",    meta |-> FALSE],
       [css |-> "[class*=product-title]",          meta |-> FALSE],
       [css |-> "[class*=product-name]",           meta |-> FALSE],
       [css |-> "[id*=product-title]",             meta |-> FALSE],
       [css |-> "title",                           meta |-> FALSE],
       [css |-> "meta[property=og:title]",         meta |-> TRUE],
       [css |-> "meta[name=title]",                meta |-> TRUE] >>

\* the selectors of _extract_price
price_selectors ==
    << [css |-> "[class*=price]",                      meta |-> FALSE],
       [css |-> "[data-testid*=price]",                meta |-> FALSE],
       [css |-> "[id*=price]",                         meta |-> FALSE],
       [css |-> "meta[property=product:price:amount]", meta |-> TRUE],
       [css |-> "meta[property=og:price:amount]",      meta |-> TRUE],
       [css |-> ".a-price-whole",                      meta |-> FALSE],
       [css |-> ".notranslate",                        meta |-> FALSE] >>

\* len(text) > 3
LongEnough(text) == Len(text) > 3

\* one selector of _extract_name: the text it returns, NoName when it
\* returns nothing. select_one is the first match; both branches strip.
NameOfText(text) == IF text # <<>> /\ LongEnough(text) THEN text ELSE NoName

NameOfElements(els) == IF els = <<>> THEN NoName ELSE NameOfText(Strip(els[1]))

NameOfSelector(page, selector) == NameOfElements(Select(page, selector.css))

FirstName(page, hit) ==
    IF hit = {} THEN NoName ELSE NameOfSelector(page, name_selectors[SetMin(hit)])

Html_extract_name(page) ==
    FirstName(page, {k \in 1..Len(name_selectors) :
                       NameOfSelector(page, name_selectors[k]) # NoName})

\* one selector of _extract_price: a meta selector parses the content of
\* the first match, any other the stripped text of each match in turn
SelectorTexts(els, meta) ==
    IF meta THEN (IF els = <<>> THEN <<>> ELSE <<els[1]>>)
    ELSE [k \in 1..Len(els) |-> Strip(els[k])]

FirstParsed(texts, good) ==
    IF good = {} THEN NoFloat
    ELSE Html_parse_price_text(texts[SetMin(good)], price_patterns)

PriceOfTexts(texts) ==
    FirstParsed(texts, {k \in 1..Len(texts) :
                          Html_parse_price_text(texts[k], price_patterns).ok})

PriceOfSelector(page, selector) ==
    PriceOfTexts(SelectorTexts(Select(page, selector.css), selector.meta))

\* the texts that one selector gives to _parse_price_text
TextsOfSelector(page, selector) ==
    SelectorTexts(Select(page, selector.css), selector.meta)

\* the texts of a selector that are parsed: all of them, or those up to
\* the first that gives a price, at which _extract_price returns
ParsedUpTo(texts, good) ==
    IF good = {} THEN [halt |-> FALSE, texts |-> texts]
    ELSE [halt |-> TRUE, texts |-> SubSeq(texts, 1, SetMin(good))]

ParsedOfSelector(texts) ==
    ParsedUpTo(texts, {k \in 1..Len(texts) :
                         Html_parse_price_text(texts[k], price_patterns).ok})

\* the texts that _extract_price gives to _parse_price_text, in the
\* order of the calls, from selector k on
RECURSIVE ParsedTexts(_, _)
ParsedNext(page, k, parsed) ==
    IF parsed.halt THEN parsed.texts ELSE parsed.texts \o ParsedTexts(page, k + 1)

ParsedTexts(page, k) ==
    IF k > Len(price_selectors) THEN <<>>
    ELSE ParsedNext(page, k, ParsedOfSelector(TextsOfSelector(page, price_selectors[k])))

\* a loop that goes on after a price and returns the last one
FirstPrice_LastSelector(page, hit) ==
    IF hit = {} THEN NoFloat ELSE PriceOfSelector(page, price_selectors[SetMax(hit)])

FirstPrice(page, hit) ==
    IF hit = {} THEN NoFloat ELSE PriceOfSelector(page, price_selectors[SetMin(hit)])

Html_extract_price(page) ==
    FirstPrice(page, {k \in 1..Len(price_selectors) :
                        PriceOfSelector(page, price_selectors[k]).ok})

\* a get_product_info without "if price is None"
NameAndPrice_PriceUnchecked(name, price) ==
    IF name = NoName THEN NoInfo ELSE ProductInfo(name, price.v)

\* lines 40-51: no name is None, no price is None
NameAndPrice(name, price) ==
    IF name = NoName THEN NoInfo
    ELSE IF ~price.ok THEN NoInfo
    ELSE ProductInfo(name, price.v)

\* a get_product_info with the except clause for RequestException only
Html_get_product_info_RequestsOnly(response) ==
    IF response.status = "unparseable" THEN [tag |-> "Raise", name |-> <<>>, price |-> 0]
    ELSE IF response.status # "ok" THEN NoInfo
    ELSE NameAndPrice(Html_extract_name(response), Html_extract_price(response))

\* HtmlAdapter.get_product_info, given what session.get answered: both
\* except clauses return None
Html_get_product_info(response) ==
    IF response.status # "ok" THEN NoInfo
    ELSE NameAndPrice(Html_extract_name(response), Html_extract_price(response))

(* ----------------------- adapters/jsonld_adapter ---------------------- *)

sProduct == <<"P", "r", "o", "d", "u", "c", "t">>

known_sites ==
    { <<"a", "m", "a", "z", "o", "n", ".">>,
      <<"e", "b", "a", "y", ".">>,
      <<"w", "a", "l", "m", "a", "r", "t", ".">>,
      <<"t", "a", "r", "g", "e", "t", ".">>,
      <<"b", "e", "s", "t", "b", "u", "y", ".">> }

\* a supports_url that compares the host as it is written
JsonLd_supports_url_CaseSensitive(url) ==
    /\ url.netloc # <<>> /\ url.scheme \in {"http", "https"}
    /\ \E site \in known_sites : Contains(HostPart(url.netloc), site)

JsonLd_supports_url(url) ==
    /\ url.netloc # <<>> /\ url.scheme \in {"http", "https"}
    /\ \E site \in known_sites : Contains(Hostname(url), site)

\* JsonLdAdapter.supports_url as a call: the try around urlparse and the
\* except that returns False
JsonLd_supports_url_try(url) ==
    IF UrlparseRaises(url) THEN "False"
    ELSE IF JsonLd_supports_url(url) THEN "True" ELSE "False"

\* str(x), for the values the model's pages hold as a type or a name:
\* a str is itself, a list of str is its repr, None is 'None'
RECURSIVE ReprItems(_)
ReprItems(q) ==
    IF q = <<>> THEN <<>>
    ELSE <<"'">> \o q[1].v \o <<"'">>
         \o (IF Len(q) > 1 THEN <<",", " ">> ELSE <<>>) \o ReprItems(Tail(q))

PyStr(x) ==
    CASE x.t = "str"  -> x.v
      [] x.t = "list" -> <<"[">> \o ReprItems(x.v) \o <<"]">>
      [] x.t = "null" -> <<"N", "o", "n", "e">>

\* the walk of a nested key ('a/b', given split): None when a step fails
RECURSIVE Walk(_, _)
Walk(value, nested_keys) ==
    IF nested_keys = <<>> THEN value
    ELSE IF IsDict(value) /\ Head(nested_keys) \in DOMAIN value.v
         THEN Walk(value.v[Head(nested_keys)], Tail(nested_keys))
    ELSE Null

\* lines 176-178: the first item of a list that is not empty
FirstOfList(value) == IF IsList(value) /\ value.v # <<>> THEN value.v[1] ELSE value

\* _get_nested_value(data, keys); a key is given split at '/', so a key
\* with '/' in it is one of more than one part
RECURSIVE JsonLd_get_nested_value(_, _)
NestedOr(value, data, keys) ==
    IF value # Null THEN value ELSE JsonLd_get_nested_value(data, keys)

JsonLd_get_nested_value(data, keys) ==
    IF ~IsDict(data) THEN Null
    ELSE IF keys = <<>> THEN Null
    ELSE IF Len(Head(keys)) > 1 THEN NestedOr(Walk(data, Head(keys)), data, Tail(keys))
    ELSE IF Head(keys)[1] \in DOMAIN data.v THEN FirstOfList(data.v[Head(keys)[1]])
    ELSE JsonLd_get_nested_value(data, Tail(keys))

offer_price_keys ==
    <<<<"price">>, <<"lowPrice">>, <<"highPrice">>, <<"priceSpecification", "price">>>>

\* lines 144-151: the value found in an offer, as a float; NoFloat when
\* the loop goes on to the next offer
CoercePrice(price) ==
    IF price = Null THEN NoFloat
    ELSE IF IsStr(price) THEN ParseFloat(Strip(Remove(Remove(price.v, "$"), ",")))
    ELSE ToFloat(price)

PriceOfOffer(offer) ==
    IF ~IsDict(offer) THEN NoFloat
    ELSE CoercePrice(JsonLd_get_nested_value(offer, offer_price_keys))

\* lines 133-137: a single offer is a list of one
OfferList(offers) ==
    IF IsDict(offers) THEN <<offers>> ELSE IF IsList(offers) THEN offers.v ELSE <<>>

\* a loop that looks at offers[0] only
FirstOfferPrice_HeadOnly(list, good) ==
    IF list = <<>> THEN NoFloat ELSE PriceOfOffer(list[1])

FirstOfferPrice(list, good) ==
    IF good = {} THEN NoFloat ELSE PriceOfOffer(list[SetMin(good)])

PriceOfOffers(list) ==
    FirstOfferPrice(list, {k \in 1..Len(list) : PriceOfOffer(list[k]).ok})

JsonLd_extract_price_from_offers(offers) ==
    IF ~Truthy(offers) THEN NoFloat ELSE PriceOfOffers(OfferList(offers))

EmptyDict == Dct(<<>>)

\* lines 77-79: a list of types is joined with spaces
JoinedType(raw_type) ==
    IF IsList(raw_type)
      THEN Str(JoinSpace([k \in 1..Len(raw_type.v) |-> raw_type.v[k].v]))
    ELSE raw_type

\* lines 81-86
ProductOf(item_type, name, price) ==
    IF Contains(PyStr(item_type), sProduct) /\ Truthy(name) /\ price.ok
      THEN ProductInfo(PyStr(name), price.v)
    ELSE NoInfo

\* one item of _extract_from_jsonld: the ProductInfo it returns, NoInfo
\* when the loop goes on to the next item
JsonLdItem(item) ==
    IF ~IsDict(item) THEN NoInfo
    ELSE ProductOf(JoinedType(Get(item, "@type", Str(<<>>))),
                   JsonLd_get_nested_value(item, <<<<"name">>, <<"title">>>>),
                   JsonLd_extract_price_from_offers(Get(item, "offers", EmptyDict)))

FirstJsonLdItem(jsonld_data, hit) ==
    IF hit = {} THEN NoInfo ELSE JsonLdItem(jsonld_data[SetMin(hit)])

JsonLd_extract_from_jsonld(jsonld_data) ==
    FirstJsonLdItem(jsonld_data,
                    {k \in 1..Len(jsonld_data) : JsonLdItem(jsonld_data[k]) # NoInfo})

\* lines 106-110: float(price) may raise, and then the next offer is tried
MicrodataProduct(name, price, f) ==
    IF price # Null /\ Truthy(name) /\ f.ok THEN ProductInfo(PyStr(name), f.v)
    ELSE NoInfo

MicrodataPrice(offer_props) ==
    JsonLd_get_nested_value(offer_props, <<<<"price">>, <<"lowPrice">>>>)

\* one offer of a microdata item: the ProductInfo returned, NoInfo when
\* the loop goes on to the next offer
MicrodataOffer(name, offer) ==
    IF ~IsDict(offer) THEN NoInfo
    ELSE MicrodataProduct(name,
                          MicrodataPrice(Get(offer, "properties", EmptyDict)),
                          ToFloat(MicrodataPrice(Get(offer, "properties", EmptyDict))))

FirstMicrodataOffer(name, list, hit) ==
    IF hit = {} THEN NoInfo ELSE MicrodataOffer(name, list[SetMin(hit)])

MicrodataOffers(name, offers) ==
    IF Truthy(offers) /\ IsList(offers)
      THEN FirstMicrodataOffer(name, offers.v,
               {k \in 1..Len(offers.v) : MicrodataOffer(name, offers.v[k]) # NoInfo})
    ELSE NoInfo

MicrodataProperties(properties) ==
    MicrodataOffers(JsonLd_get_nested_value(properties, <<<<"name">>>>),
                    Get(properties, "offers", Lst(<<>>)))

\* one item of _extract_from_microdata
MicrodataItem(item) ==
    IF ~IsDict(item) THEN NoInfo
    ELSE IF ~Contains(PyStr(Get(item, "type", Str(<<>>))), sProduct) THEN NoInfo
    ELSE MicrodataProperties(Get(item, "properties", EmptyDict))

FirstMicrodataItem(microdata, hit) ==
    IF hit = {} THEN NoInfo ELSE MicrodataItem(microdata[SetMin(hit)])

JsonLd_extract_from_microdata(microdata) ==
    FirstMicrodataItem(microdata,
                       {k \in 1..Len(microdata) : MicrodataItem(microdata[k]) # NoInfo})

\* the RDFa branch looks at the items and returns None
JsonLd_extract_from_rdfa(rdfa_data) == NoInfo

\* a chain of tries in which the later encoding wins
OrElse_LaterWins(product_info, next) == IF next # NoInfo THEN next ELSE product_info

\* "if product_info: return product_info", else what comes next
OrElse(product_info, next) == IF product_info # NoInfo THEN product_info ELSE next

\* JsonLdAdapter.get_product_info, given what session.get answered; the
\* response carries what extruct.extract finds in it, and both except
\* clauses return None
JsonLd_get_product_info(response) ==
    IF response.status # "ok" THEN NoInfo
    ELSE OrElse(JsonLd_extract_from_jsonld(response.jsonld),
           OrElse(JsonLd_extract_from_microdata(response.microdata),
             OrElse(JsonLd_extract_from_rdfa(response.rdfa), NoInfo)))

\* the _extract_from_ methods that get_product_info calls, in the order
\* of the calls
EncodingsTried(response) ==
    IF response.status # "ok" THEN <<>>
    ELSE IF JsonLd_extract_from_jsonld(response.jsonld) # NoInfo THEN <<"json-ld">>
    ELSE IF JsonLd_extract_from_microdata(response.microdata) # NoInfo
      THEN <<"json-ld", "microdata">>
    ELSE <<"json-ld", "microdata", "rdfa">>

(* --------------------------- tasks/email_tasks ------------------------ *)

\* a float that a division gives, as the fraction num/den
ZeroDivisionError == [ok |-> FALSE, num |-> 0, den |-> 1]

\* a / b
Quotient(a, b) == IF b = 0 THEN ZeroDivisionError ELSE [ok |-> TRUE, num |-> a, den |-> b]

\* q * k
Times(q, k) == IF q.ok THEN [q EXCEPT !.num = @ * k] ELSE q

\* a guard that lets an average of 0 through
calculate_price_drop_percentage_NegativeOnly(current_price, average_price) ==
    IF average_price < 0 THEN Quotient(0, 1)
    ELSE Times(Quotient(average_price - current_price, average_price), 100)

calculate_price_drop_percentage(current_price, average_price) ==
    IF average_price <= 0 THEN Quotient(0, 1)
    ELSE Times(Quotient(average_price - current_price, average_price), 100)

(* ------------------------------- inputs ------------------------------- *)

\* the URLs of the calls, as urlparse splits them:
\* 'https://www.EBAY.de/p', 'http://x.org/p', 'ftp://x.org/p', 'not-a-url'
Urls ==
    { [scheme |-> "https", netloc |-> <<"w", "w", "w", ".", "E", "B", "A", "Y", ".", "d", "e">>],
      [scheme |-> "http",  netloc |-> <<"x", ".", "o", "r", "g">>],
      [scheme |-> "ftp",   netloc |-> <<"x", ".", "o", "r", "g">>],
      [scheme |-> "",      netloc |-> <<>>] }

\* what the markup of a page holds for the selectors
NoMarkup == [css \in {} |-> <<>>]

Doms ==
    << NoMarkup,
       \* a heading and a price
       ("h1" :> <<<<" ", "W", "i", "d", "g", "e", "t", " ">>>>) @@ ("[class*=price]" :> <<<<"$", "4", "9", ".", "9", "9">>>>),
       \* a heading that is too short, a title; prices out of range, then
       \* the largest price
       ("h1" :> <<<<"a", "b">>>>) @@ ("title" :> <<<<"S", "h", "o", "p">>>>)
         @@ ("[class*=price]" :> <<<<"0", ".", "0", "0">>, <<"1", "0", "0", "0", "0", "0", "0">>>>)
         @@ ("meta[property=og:price:amount]" :> <<<<"9", "9", "9", "9", "9", "9">>>>),
       \* a meta title and the smallest price after a text with no number
       ("meta[property=og:title]" :> <<<<" ", "L", "a", "m", "p", " ">>>>)
         @@ ("[id*=price]" :> <<<<"s", "a", "l", "e">>, <<"0", ".", "0", "1">>>>),
       \* a heading and no price in range
       ("h1" :> <<<<" ", "W", "i", "d", "g", "e", "t", " ">>>>) @@ (".notranslate" :> <<<<"1", "0", "0", "0", "0", "0", "0">>, <<"0", ".", "0", "0">>>>) >>

\* what extruct finds in a page
Structs ==
    << [jsonld |-> <<>>, microdata |-> <<>>],
       \* a Product with a name and one offer
       [jsonld |-> << Dct([type |-> Str(<<"T", "h", "i", "n", "g">>)]),
                      Dct(("@type" :> Str(sProduct)) @@ ("name" :> Str(<<"G", "a", "d", "g", "e", "t">>))
                          @@ ("offers" :> Dct([price |-> Str(<<"2", "5", ".", "0", "0">>)]))) >>,
        microdata |-> <<>>],
       \* a Product with a short name and the number 0 as its price
       [jsonld |-> << Dct(("@type" :> Lst(<<Str(<<"T", "h", "i", "n", "g">>), Str(sProduct)>>))
                          @@ ("name" :> Str(<<"a", "b">>))
                          @@ ("offers" :> Dct([price |-> Num(0)]))) >>,
        microdata |-> <<>>],
       \* a Product with an untrimmed name and a list of offers
       [jsonld |-> << Dct(("@type" :> Str(sProduct)) @@ ("name" :> Lst(<<Str(<<" ", "G", "a", "d", "g", "e", "t", " ">>)>>))
                          @@ ("offers" :> Lst(<<EmptyDict,
                                                Dct([price |-> Str(<<"$", "1", ",", "0", "0", "0", ",", "0", "0", "0">>)])>>))) >>,
        microdata |-> <<>>],
       \* a linked-data Product without offers, a microdata Product
       [jsonld |-> << Dct(("@type" :> Str(sProduct)) @@ ("name" :> Str(<<"G", "a", "d", "g", "e", "t">>))) >>,
        microdata |-> << Dct([type |-> Lst(<<Str(sProduct)>>),
                              properties |-> Dct([name |-> Str(<<"G", "i", "z", "m", "o">>),
                                 offers |-> Lst(<<Dct([properties |-> Dct([price |-> Str(<<"0", ".", "0", "0">>)])])>>)])]) >>],
       \* a microdata Product with a price in range
       [jsonld |-> <<>>,
        microdata |-> << Dct([type |-> Str(sProduct),
                              properties |-> Dct([name |-> Str(<<"G", "i", "z", "m", "o">>),
                                 offers |-> Lst(<<Dct([properties |-> Dct([lowPrice |-> Str(<<"2", "5", ".", "0", "0">>)])])>>)])]) >>] >>

\* a page with the markup d and the structured data x
PageOf(d, x) ==
    [status |-> "ok", dom |-> d, jsonld |-> x.jsonld, microdata |-> x.microdata,
     rdfa |-> <<>>]

\* the pages the URLs may serve: page k of Pages
Pages ==
    << PageOf(Doms[1], Structs[1]), PageOf(Doms[2], Structs[1]),
       PageOf(Doms[2], Structs[2]), PageOf(Doms[2], Structs[3]),
       PageOf(Doms[3], Structs[4]), PageOf(Doms[4], Structs[5]),
       PageOf(Doms[5], Structs[6]), PageOf(Doms[5], Structs[1]),
       PageOf(Doms[1], Structs[2]), PageOf(Doms[3], Structs[1]) >>

(* -------------------------- adapters/factory --------------------------- *)

VARIABLES
    adapters,   \* AdapterFactory.adapters
    pc,         \* where get_product_info stands: "idle" between calls
    idx,        \* the position in adapters of the loop of get_product_info
    url,        \* the url of the call
    page,       \* the page the url serves during the call, an index of Pages
    log,        \* the calls get_product_info has made on adapters, in order
    result,     \* what get_product_info handed to its caller
    lastAdd,    \* the last add_adapter call, NoAdd before the first
    calls,      \* by thread, the call of get_product_info the thread is in
    applied,    \* one method of an adapter applied to one argument
    db,         \* the rows of the tables users, products and price_history
    queue,      \* the jobs pending in scraping_queue, the oldest first
    clock,      \* datetime.utcnow(), in hours
    last        \* the last request or job: what it returned, the rows before it

vars == <<adapters, pc, idx, url, page, log, result, lastAdd, calls, applied, db, queue, clock, last>>

\* the tables without rows; serial is the last product id handed out
EmptyDb == [users |-> <<>>, products |-> {}, prices |-> <<>>, serial |-> 0]

\* no request and no job so far
NoRequest == [op |-> "", status |-> "", before |-> EmptyDb]

\* the service at its start: empty tables, an empty queue
ServiceIdle == db = EmptyDb /\ queue = <<>> /\ clock = 0 /\ last = NoRequest

\* no method has been applied
NotApplied == [fn |-> "", kind |-> "", arg |-> <<>>, out |-> <<>>, tried |-> <<>>]

\* the adapter objects: the two that __init__ constructs, and one of a
\* class written elsewhere, whose methods may do anything
Adapters == {"JsonLdAdapter", "HtmlAdapter", "CustomAdapter"}

\* an __init__ that lists the fallback first
DefaultAdapters_HtmlFirst == <<"HtmlAdapter", "JsonLdAdapter">>

\* AdapterFactory.__init__
DefaultAdapters == <<"JsonLdAdapter", "HtmlAdapter">>

CustomInfo == ProductInfo(<<"M", "o", "c", "k">>, 1550)

Pending == [tag |-> "Pending", name |-> <<>>, price |-> 0]

\* an exception that leaves get_product_info
Raised == [tag |-> "Raise", name |-> <<>>, price |-> 0]

NoAdd == [adapter |-> "", priority |-> 0 - 1]

NoUrl == [scheme |-> "", netloc |-> <<>>]

\* what adapter.supports_url(url) may do
SupportsOutcomes(adapter, u) ==
    CASE adapter = "JsonLdAdapter" -> {IF JsonLd_supports_url(u) THEN "True" ELSE "False"}
      [] adapter = "HtmlAdapter"   -> {Html_supports_url_try(u)}
      [] OTHER                     -> {"True", "False", "Raise"}

\* an Optional[ProductInfo] as an outcome of a call that made the given
\* number of session.get requests
Returned(info, gets) == [ret |-> info.tag, info |-> info, gets |-> gets]

\* what session.get(url) may answer while the url serves page p
Responses(p) == {Pages[p], RequestException, ParserError}

\* what adapter.get_product_info(url) may do: each adapter of the package
\* fetches the url itself (its first statement), the request may fail and
\* the parser may raise
ExtractOutcomes(adapter, p) ==
    CASE adapter = "JsonLdAdapter" ->
            {Returned(JsonLd_get_product_info(r), 1) : r \in Responses(p)}
      [] adapter = "HtmlAdapter" ->
            {Returned(Html_get_product_info(r), 1) : r \in Responses(p)}
      [] OTHER ->
            {Returned(CustomInfo, 0), Returned(NoInfo, 0), Returned(Raised, 0)}

\* line 31: supports_url is called outside the try
OnSupports(ret) ==
    CASE ret = "True"  -> "extract"
      [] ret = "False" -> "next"
      [] ret = "Raise" -> "propagate"

\* a loop that does not return the ProductInfo it was given
OnExtract_KeepsGoing(ret) ==
    CASE ret = "Found" -> "next"
      [] ret = "None"  -> "next"
      [] ret = "Raise" -> "next"

\* a loop without the try
OnExtract_Propagates(ret) ==
    CASE ret = "Found" -> "return"
      [] ret = "None"  -> "next"
      [] ret = "Raise" -> "propagate"

\* an except clause that returns None
OnExtract_RaiseReturns(ret) ==
    CASE ret = "Found" -> "return"
      [] ret = "None"  -> "next"
      [] ret = "Raise" -> "return"

\* lines 32-39: a ProductInfo is returned, None and an exception go on
OnExtract(ret) ==
    CASE ret = "Found" -> "return"
      [] ret = "None"  -> "next"
      [] ret = "Raise" -> "next"

\* an add_adapter that ignores the priority
Inserted_Appends(list, adapter, priority) == Append(list, adapter)

\* add_adapter: list.insert(0, adapter) or list.append(adapter)
Inserted(list, adapter, priority) ==
    IF priority = 0 THEN <<adapter>> \o list ELSE Append(list, adapter)

Init ==
    /\ adapters = DefaultAdapters
    /\ pc = "idle"
    /\ idx = 0
    /\ url = NoUrl
    /\ page = 0
    /\ log = <<>>
    /\ result = Pending
    /\ lastAdd = NoAdd
    /\ calls = <<>>
    /\ applied = NotApplied
    /\ ServiceIdle

\* add_adapter(adapter, priority), between calls of get_product_info
AddAdapter(adapter, priority) ==
    /\ pc = "idle"
    /\ Len(adapters) < Len(DefaultAdapters) + MaxAdds
    /\ adapters' = Inserted(adapters, adapter, priority)
    /\ lastAdd' = [adapter |-> adapter, priority |-> priority]
    /\ UNCHANGED <<pc, idx, url, page, log, result, calls, applied, db, queue, clock, last>>

\* get_product_info(url) is called
Call(u, p) ==
    /\ pc = "idle"
    /\ pc' = "loop"
    /\ idx' = 1
    /\ url' = u
    /\ page' = p
    /\ log' = <<>>
    /\ result' = Pending
    /\ UNCHANGED <<adapters, lastAdd, calls, applied, db, queue, clock, last>>

\* the loop takes the next adapter and calls its supports_url
SupportsUrl ==
    /\ pc = "loop"
    /\ idx <= Len(adapters)
    /\ \E ret \in SupportsOutcomes(adapters[idx], url) :
         /\ log' = Append(log, [op |-> "supports_url", pos |-> idx,
                                adapter |-> adapters[idx], ret |-> ret, info |-> NoInfo,
                                gets |-> 0])
         /\ pc' = CASE OnSupports(ret) = "extract"   -> "extract"
                    [] OnSupports(ret) = "next"      -> "loop"
                    [] OnSupports(ret) = "propagate" -> "raised"
         /\ idx' = IF OnSupports(ret) = "next" THEN idx + 1 ELSE idx
         /\ result' = IF OnSupports(ret) = "propagate" THEN Raised ELSE result
    /\ UNCHANGED <<adapters, url, page, lastAdd, calls, applied, db, queue, clock, last>>

\* the try block: the adapter's get_product_info is called
GetProductInfo ==
    /\ pc = "extract"
    /\ \E out \in ExtractOutcomes(adapters[idx], page) :
         /\ log' = Append(log, [op |-> "get_product_info", pos |-> idx,
                                adapter |-> adapters[idx], ret |-> out.ret,
                                info |-> out.info, gets |-> out.gets])
         /\ pc' = CASE OnExtract(out.ret) = "return"    -> "done"
                    [] OnExtract(out.ret) = "next"      -> "loop"
                    [] OnExtract(out.ret) = "propagate" -> "raised"
         /\ idx' = IF OnExtract(out.ret) = "next" THEN idx + 1 ELSE idx
         /\ result' = CASE OnExtract(out.ret) = "return"    -> out.info
                        [] OnExtract(out.ret) = "next"      -> result
                        [] OnExtract(out.ret) = "propagate" -> Raised
    /\ UNCHANGED <<adapters, url, page, lastAdd, calls, applied, db, queue, clock, last>>

\* lines 41-42: the loop is over, None is returned
ReturnNone ==
    /\ pc = "loop"
    /\ idx > Len(adapters)
    /\ result' = NoInfo
    /\ pc' = "done"
    /\ UNCHANGED <<adapters, idx, url, page, log, lastAdd, calls, applied, db, queue, clock, last>>

\* the caller has the result (or the exception); the factory is idle again
Finish ==
    /\ pc \in {"done", "raised"}
    /\ pc' = "idle"
    /\ idx' = 0
    /\ url' = NoUrl
    /\ page' = 0
    /\ log' = <<>>
    /\ result' = Pending
    /\ UNCHANGED <<adapters, lastAdd, calls, applied, db, queue, clock, last>>

Next ==
    \/ \E a \in Adapters, priority \in {0, 1} : AddAdapter(a, priority)
    \/ \E u \in Urls, p \in DOMAIN Pages : Call(u, p)
    \/ SupportsUrl
    \/ GetProductInfo
    \/ ReturnNone
    \/ Finish

Spec == Init /\ [][Next]_vars

(* --------------------- the methods of the adapters -------------------- *)

\* the sequences of at most n elements of S
SeqsUpTo(S, n) == UNION {[1..k -> S] : k \in 0..n}

TextAlphabet == {"$", "EUR", "2", "9", ",", ".", "x"}

\* a number as a price string: bare, or with a currency symbol before or
\* after it
Marked(n) ==
    { n, <<"$">> \o n, <<"$", " ">> \o n, <<"EUR">> \o n, <<"GBP", " ">> \o n,
      n \o <<"$">>, n \o <<" ", "EUR">> }

\* the price strings of 29, 49.99, 1,199.99 and 0.01
PriceStrings ==
    UNION {Marked(n) : n \in { <<"2", "9">>, <<"4", "9", ".", "9", "9">>,
                               <<"1", ",", "1", "9", "9", ".", "9", "9">>,
                               <<"0", ".", "0", "1">> }}

\* the texts given to the price parsers
PriceTexts == PriceStrings \cup SeqsUpTo(TextAlphabet, MaxText)

\* the offers of a Product: without a price, with a price that is a
\* str, a str that is no number, a number, None, and with a lowPrice
OfferChoices ==
    << EmptyDict,
       Dct([price |-> Str(<<"2", "5", ".", "0", "0">>)]),
       Dct([price |-> Str(<<"a", "b", "c">>)]),
       Dct([price |-> Num(3000)]),
       Dct([price |-> Null]),
       Dct([lowPrice |-> Str(<<"1", "9", ".", "9", "9">>)]) >>

\* the list of the offers that picks names, in its order
OffersPicked(picks) == Lst([k \in DOMAIN picks |-> OfferChoices[picks[k]]])

\* the price an offer states under a key: '10.00' under price, '20.00'
\* under lowPrice, '30.00' under highPrice, '40.00' under
\* priceSpecification/price; or a str that is no number, or None
KeyedValue(kind, key) ==
    CASE kind = "text" -> Str(<<"a", "b", "c">>)
      [] kind = "none" -> Null
      [] kind = "number" ->
           Str(<<(CASE key = "price" -> "1" [] key = "lowPrice" -> "2"
                    [] key = "highPrice" -> "3" [] OTHER -> "4"), "0", ".", "0", "0">>)

\* one offer whose keys are as f says: absent, or present with a number,
\* with a text or with None
KeyedOffer(f) ==
    Dct([key \in {k \in DOMAIN f : f[k] # "absent"} |->
           IF key = "priceSpecification"
             THEN Dct([price |-> KeyedValue(f[key], key)])
           ELSE KeyedValue(f[key], key)])

KeyedOffers ==
    {KeyedOffer(f) : f \in [{"price", "lowPrice", "highPrice", "priceSpecification"}
                             -> {"absent", "number", "text", "none"}]}

\* the urls given to supports_url, as urlparse splits them (when it does)
UrlInputs ==
    [scheme : {"http", "https", "ftp", ""},
     netloc : {<<>>, <<"x", ".", "o", "r", "g">>,
               <<"w", "w", "w", ".", "E", "B", "A", "Y", ".", "d", "e">>,
               <<"x", ".", "o", "r", "g", ":", "8", "0">>,
               <<":", "8", "0">>, <<"[", "x">>}]

\* where _extract_name looks for a name when the page has no element
\* of a product-title or product-name class
NameSources == {"h1", "title", "meta[property=og:title]", "meta[name=title]"}

NameText(css) ==
    CASE css = "h1"                      -> <<" ", "H", "e", "a", "d", " ">>
      [] css = "title"                   -> <<"T", "i", "t", "l", "e">>
      [] css = "meta[property=og:title]" -> <<"O", "g", "T", "i", "t", "l", "e">>
      [] css = "meta[name=title]"        -> <<"M", "e", "t", "a", "T", "i", "t", "l", "e">>

\* a page whose name sources are as f says (absent, short: 3 characters,
\* valid: 4 or more) and that has a price when priced
NamePage(f, priced) ==
    PageOf([css \in {c \in NameSources : f[c] # "absent"}
                     \cup (IF priced THEN {"[class*=price]"} ELSE {}) |->
              IF css = "[class*=price]" THEN <<<<"$", "2", "9">>>>
              ELSE IF f[css] = "short" THEN <<<<"a", "b", "c">>>>
              ELSE <<NameText(css)>>],
           Structs[1])

NamePages ==
    {NamePage(f, priced) : f \in [NameSources -> {"absent", "short", "valid"}],
                           priced \in BOOLEAN}

\* the prices given to calculate_price_drop_percentage
Amounts == (0 - 1)..MaxAmount

\* a page with a Product in its linked data and another in its microdata
BothEncodings ==
    PageOf(NoMarkup, [jsonld |-> Structs[2].jsonld, microdata |-> Structs[6].microdata])

\* the name fields of a Product: 'Gadget' under name, 'Gizmo' under
\* title, each as a str or as the first of a list
NameFields(keys, listed) ==
    [key \in keys |->
       IF listed
         THEN Lst(<<Str(IF key = "name" THEN <<"G", "a", "d", "g", "e", "t">>
                        ELSE <<"G", "i", "z", "m", "o">>),
                    Str(<<"O", "t", "h", "e", "r">>)>>)
       ELSE Str(IF key = "name" THEN <<"G", "a", "d", "g", "e", "t">>
                ELSE <<"G", "i", "z", "m", "o">>)]

\* a page with one Product in one encoding: its name fields, and one
\* offer with the price '25.00', given as an object or as a list of one
EncodedProduct(encoding, offers, names) ==
    IF encoding = "json-ld"
      THEN PageOf(NoMarkup,
             [jsonld |-> <<Dct(("@type" :> Str(sProduct)) @@ ("offers" :> offers) @@ names)>>,
              microdata |-> <<>>])
    ELSE PageOf(NoMarkup,
           [jsonld |-> <<>>,
            microdata |-> <<Dct([type |-> Str(sProduct),
                                 properties |-> Dct(("offers" :> offers) @@ names)])>>])

\* the offer of a Product in an encoding, alone or in a list
OneOffer(encoding, shape) ==
    IF encoding = "json-ld"
      THEN (IF shape = "list" THEN Lst(<<OfferChoices[2]>>) ELSE OfferChoices[2])
    ELSE IF shape = "list" THEN Lst(<<Dct([properties |-> OfferChoices[2]])>>)
    ELSE Dct([properties |-> OfferChoices[2]])

\* a page with one element of an id with price in it, whose text is
\* given, and one element of the class notranslate with the text '7'
PricedPage(text) ==
    PageOf(("[id*=price]" :> <<text>>) @@ (".notranslate" :> <<<<"7">>>>), Structs[1])

\* the argument a method is applied to
Argument(kind, arg) == applied = [NotApplied EXCEPT !.kind = kind, !.arg = arg]

MethodsInit ==
    /\ adapters = DefaultAdapters
    /\ pc = "idle"
    /\ idx = 0
    /\ url = NoUrl
    /\ page = 0
    /\ log = <<>>
    /\ result = Pending
    /\ lastAdd = NoAdd
    /\ calls = <<>>
    /\ ServiceIdle
    /\ \/ \E t \in PriceTexts : Argument("text", t)
       \/ \E t \in PriceTexts : Argument("offers", Dct([price |-> Str(t)]))
       \/ \E picks \in SeqsUpTo(DOMAIN OfferChoices, MaxOffers) :
            Argument("offers", OffersPicked(picks))
       \/ \E offer \in KeyedOffers : Argument("offers", offer)
       \/ \E u \in UrlInputs : Argument("url", u)
       \/ \E k \in DOMAIN Pages : \E r \in Responses(k) : Argument("response", r)
       \/ \E r \in NamePages : Argument("response", r)
       \/ Argument("response", BothEncodings)
       \/ \E t \in PriceTexts : Argument("priced", PricedPage(t))
       \/ \E encoding \in {"json-ld", "microdata"}, shape \in {"object", "list"},
             keys \in {{"name"}, {"title"}, {"name", "title"}}, listed \in BOOLEAN :
            Argument("product", EncodedProduct(encoding, OneOffer(encoding, shape),
                                               NameFields(keys, listed)))
       \/ \E c \in Amounts, a \in Amounts :
            Argument("prices", [current_price |-> c, average_price |-> a])

\* the method fn returned out
Applied(fn, out) == applied' = [applied EXCEPT !.fn = fn, !.out = out]

\* HtmlAdapter._parse_price_text(text, price_patterns)
ParsePriceText ==
    /\ applied.fn = "" /\ applied.kind = "text"
    /\ Applied("_parse_price_text", Html_parse_price_text(applied.arg, price_patterns))
    /\ UNCHANGED <<adapters, pc, idx, url, page, log, result, lastAdd, calls, db, queue, clock, last>>

\* JsonLdAdapter._extract_price_from_offers(offers)
ExtractPriceFromOffers ==
    /\ applied.fn = "" /\ applied.kind = "offers"
    /\ Applied("_extract_price_from_offers", JsonLd_extract_price_from_offers(applied.arg))
    /\ UNCHANGED <<adapters, pc, idx, url, page, log, result, lastAdd, calls, db, queue, clock, last>>

\* HtmlAdapter._extract_name(soup, url)
ExtractName ==
    /\ applied.fn = "" /\ applied.kind = "response" /\ applied.arg.status = "ok"
    /\ Applied("_extract_name", Html_extract_name(applied.arg))
    /\ UNCHANGED <<adapters, pc, idx, url, page, log, result, lastAdd, calls, db, queue, clock, last>>

\* HtmlAdapter._extract_price(soup, url)
ExtractPrice ==
    /\ applied.fn = ""
    /\ \/ applied.kind = "priced"
       \/ applied.kind = "response" /\ applied.arg.status = "ok"
    /\ applied' = [applied EXCEPT !.fn = "_extract_price",
                                  !.out = Html_extract_price(applied.arg),
                                  !.tried = ParsedTexts(applied.arg, 1)]
    /\ UNCHANGED <<adapters, pc, idx, url, page, log, result, lastAdd, calls, db, queue, clock, last>>

\* HtmlAdapter.get_product_info(url), session.get answering applied.arg
HtmlGetProductInfo ==
    /\ applied.fn = "" /\ applied.kind = "response"
    /\ Applied("HtmlAdapter.get_product_info", Html_get_product_info(applied.arg))
    /\ UNCHANGED <<adapters, pc, idx, url, page, log, result, lastAdd, calls, db, queue, clock, last>>

\* JsonLdAdapter.get_product_info(url), session.get answering applied.arg
JsonLdGetProductInfo ==
    /\ applied.fn = "" /\ applied.kind \in {"response", "product"}
    /\ applied' = [applied EXCEPT !.fn = "JsonLdAdapter.get_product_info",
                                  !.out = JsonLd_get_product_info(applied.arg),
                                  !.tried = EncodingsTried(applied.arg)]
    /\ UNCHANGED <<adapters, pc, idx, url, page, log, result, lastAdd, calls, db, queue, clock, last>>

\* HtmlAdapter.supports_url(url)
HtmlSupportsUrl ==
    /\ applied.fn = "" /\ applied.kind = "url"
    /\ Applied("HtmlAdapter.supports_url", Html_supports_url_try(applied.arg))
    /\ UNCHANGED <<adapters, pc, idx, url, page, log, result, lastAdd, calls, db, queue, clock, last>>

\* JsonLdAdapter.supports_url(url)
JsonLdSupportsUrl ==
    /\ applied.fn = "" /\ applied.kind = "url"
    /\ Applied("JsonLdAdapter.supports_url", JsonLd_supports_url_try(applied.arg))
    /\ UNCHANGED <<adapters, pc, idx, url, page, log, result, lastAdd, calls, db, queue, clock, last>>

\* calculate_price_drop_percentage(current_price, average_price)
CalculatePriceDropPercentage ==
    /\ applied.fn = "" /\ applied.kind = "prices"
    /\ Applied("calculate_price_drop_percentage",
               calculate_price_drop_percentage(applied.arg.current_price,
                                               applied.arg.average_price))
    /\ UNCHANGED <<adapters, pc, idx, url, page, log, result, lastAdd, calls, db, queue, clock, last>>

MethodsNext ==
    \/ ParsePriceText
    \/ ExtractPriceFromOffers
    \/ ExtractName
    \/ HtmlGetProductInfo
    \/ JsonLdGetProductInfo
    \/ HtmlSupportsUrl
    \/ JsonLdSupportsUrl
    \/ CalculatePriceDropPercentage
    \/ ExtractPrice

MethodsSpec == MethodsInit /\ [][MethodsNext]_vars

(* ------------------ get_product_info called by threads ---------------- *)

\* the threads that call get_product_info of the one factory of the
\* process (adapter_factory)
Threads == {"t1", "t2"}

\* the list of the factory while the threads call it: as __init__ leaves
\* it, or after one add_adapter made before the calls
Registries ==
    {DefaultAdapters} \cup {Inserted(DefaultAdapters, "CustomAdapter", priority) : priority \in {0, 1}}

\* the locals of a call that has not begun
IdleCall ==
    [pc |-> "idle", idx |-> 0, url |-> NoUrl, page |-> 0, log |-> <<>>, result |-> Pending]

\* the pages served while the threads call: one with a Product and with
\* a heading and a price in its markup, one with neither
ThreadPages == {k \in DOMAIN Pages : Pages[k] \in {PageOf(Doms[2], Structs[2]), PageOf(Doms[5], Structs[1])}}

\* a loop whose position is kept in one place for all the calls
Frame_Shared(t) == "t1"

\* the frame in which the call of thread t keeps the position of its
\* loop: a local of get_product_info, so its own
Frame(t) == t

ThreadsInit ==
    /\ adapters \in Registries
    /\ pc = "idle"
    /\ idx = 0
    /\ url = NoUrl
    /\ page = 0
    /\ log = <<>>
    /\ result = Pending
    /\ lastAdd = NoAdd
    /\ calls = [t \in Threads |-> IdleCall]
    /\ applied = NotApplied
    /\ ServiceIdle

\* thread t calls get_product_info(url)
ThreadCall(t, u, p) ==
    /\ calls[t].pc = "idle"
    /\ calls' = [calls EXCEPT ![t].pc = "loop", ![t].url = u, ![t].page = p,
                             ![t].log = <<>>, ![t].result = Pending,
                             ![Frame(t)].idx = 1]
    /\ UNCHANGED <<adapters, pc, idx, url, page, log, result, lastAdd, applied, db, queue, clock, last>>

\* the loop of thread t takes the next adapter and calls its supports_url
ThreadSupportsUrl(t) ==
    /\ calls[t].pc = "loop"
    /\ calls[Frame(t)].idx \in DOMAIN adapters
    /\ \E ret \in SupportsOutcomes(adapters[calls[Frame(t)].idx], calls[t].url) :
         calls' = [calls EXCEPT
            ![t].log = Append(@, [op |-> "supports_url", pos |-> calls[Frame(t)].idx,
                                  adapter |-> adapters[calls[Frame(t)].idx],
                                  ret |-> ret, info |-> NoInfo, gets |-> 0]),
            ![t].pc = CASE OnSupports(ret) = "extract"   -> "extract"
                        [] OnSupports(ret) = "next"      -> "loop"
                        [] OnSupports(ret) = "propagate" -> "raised",
            ![t].result = IF OnSupports(ret) = "propagate" THEN Raised ELSE @,
            ![Frame(t)].idx = IF OnSupports(ret) = "next" THEN @ + 1 ELSE @]
    /\ UNCHANGED <<adapters, pc, idx, url, page, log, result, lastAdd, applied, db, queue, clock, last>>

\* the try block of thread t: the adapter's get_product_info is called
ThreadGetProductInfo(t) ==
    /\ calls[t].pc = "extract"
    /\ calls[Frame(t)].idx \in DOMAIN adapters
    /\ \E out \in ExtractOutcomes(adapters[calls[Frame(t)].idx], calls[t].page) :
         calls' = [calls EXCEPT
            ![t].log = Append(@, [op |-> "get_product_info", pos |-> calls[Frame(t)].idx,
                                  adapter |-> adapters[calls[Frame(t)].idx],
                                  ret |-> out.ret, info |-> out.info, gets |-> out.gets]),
            ![t].pc = CASE OnExtract(out.ret) = "return"    -> "done"
                        [] OnExtract(out.ret) = "next"      -> "loop"
                        [] OnExtract(out.ret) = "propagate" -> "raised",
            ![t].result = CASE OnExtract(out.ret) = "return"    -> out.info
                            [] OnExtract(out.ret) = "next"      -> @
                            [] OnExtract(out.ret) = "propagate" -> Raised,
            ![Frame(t)].idx = IF OnExtract(out.ret) = "next" THEN @ + 1 ELSE @]
    /\ UNCHANGED <<adapters, pc, idx, url, page, log, result, lastAdd, applied, db, queue, clock, last>>

\* the loop of thread t is over, None is returned
ThreadReturnNone(t) ==
    /\ calls[t].pc = "loop"
    /\ calls[Frame(t)].idx > Len(adapters)
    /\ calls' = [calls EXCEPT ![t].pc = "done", ![t].result = NoInfo]
    /\ UNCHANGED <<adapters, pc, idx, url, page, log, result, lastAdd, applied, db, queue, clock, last>>

\* the caller in thread t has the result (or the exception)
ThreadFinish(t) ==
    /\ calls[t].pc \in {"done", "raised"}
    /\ calls' = [calls EXCEPT ![t] = IdleCall, ![Frame(t)].idx = 0]
    /\ UNCHANGED <<adapters, pc, idx, url, page, log, result, lastAdd, applied, db, queue, clock, last>>

ThreadsNext ==
    \E t \in Threads :
       \/ \E u \in Urls, p \in ThreadPages : ThreadCall(t, u, p)
       \/ ThreadSupportsUrl(t)
       \/ ThreadGetProductInfo(t)
       \/ ThreadReturnNone(t)
       \/ ThreadFinish(t)

ThreadsSpec == ThreadsInit /\ [][ThreadsNext]_vars

(* ------------------ crud, routes, tasks/scraping_tasks ---------------- *)

\* timedelta(hours=23)
ScrapeWindow == 23

\* get_or_create_user(db, email): the user row is committed at once
get_or_create_user(d, email) ==
    IF \E k \in DOMAIN d.users : d.users[k] = email THEN d
    ELSE [d EXCEPT !.users = Append(@, email)]

\* user.id: the position of the row
UserId(d, email) == CHOOSE k \in DOMAIN d.users : d.users[k] = email

\* create_product(db, product); the retailer column is left out
create_product(d, name, u, user_id) ==
    [d EXCEPT !.serial = @ + 1,
              !.products = @ \cup {[id |-> d.serial + 1, name |-> name, url |-> u,
                                    user_id |-> user_id]}]

\* create_price_entry(db, product_id, price); the date of the row is the
\* time of the insert
create_price_entry(d, product_id, price, now) ==
    [d EXCEPT !.prices = Append(@, [product_id |-> product_id, price |-> price, date |-> now])]

\* get_product(db, product_id): the rows with the id ({} for None)
get_product(d, product_id) == {q \in d.products : q.id = product_id}

\* update_product(db, product_id, name=name)
update_product(d, product_id, name) ==
    [d EXCEPT !.products = {IF q.id = product_id THEN [q EXCEPT !.name = name] ELSE q : q \in @}]

\* delete_product(db, product_id): the product row is deleted; what
\* becomes of its price rows is not said in crud, they are left
delete_product(d, product_id) ==
    [d EXCEPT !.products = {q \in @ : q.id # product_id}]

\* the subquery latest_prices: the dates of the price rows of a product
PriceDates(d, product_id) ==
    {d.prices[k].date : k \in {j \in DOMAIN d.prices : d.prices[j].product_id = product_id}}

Stale(dates, cutoff_time) == dates = {} \/ SetMax(dates) < cutoff_time

\* get_products_needing_scraping(db): the ids of the products without a
\* price row or whose latest price row is older than 23 hours
get_products_needing_scraping(d, now) ==
    {q.id : q \in {r \in d.products : Stale(PriceDates(d, r.id), now - ScrapeWindow)}}

\* the ids in the order of the rows
RECURSIVE InOrder(_)
InOrder(ids) ==
    IF ids = {} THEN <<>> ELSE <<SetMin(ids)>> \o InOrder(ids \ {SetMin(ids)})

\* adapter_factory.get_product_info(url) of the factory as it is
\* constructed, when the url serves the response: the first adapter that
\* supports the url and finds a product
FactoryInfo(u, response) ==
    OrElse(IF JsonLd_supports_url_try(u) = "True" THEN JsonLd_get_product_info(response)
           ELSE NoInfo,
           IF Html_supports_url_try(u) = "True" THEN Html_get_product_info(response)
           ELSE NoInfo)

\* what a request or a job answers and the rows it leaves
Answer(status, d) == [status |-> status, db |-> d]

\* lines 57-68 of add_product: the product and its first price
Created(d, u, email, info, now) ==
    create_price_entry(create_product(d, info.name, u, UserId(d, email)),
                       d.serial + 1, info.price, now)

\* lines 43-70 of add_product
Added(d, u, email, info, now) ==
    IF info = NoInfo THEN Answer("422", d)
    ELSE Answer("200", Created(d, u, email, info, now))

\* add_product(request, db)
add_product(d, u, email, info, now) ==
    IF UrlparseRaises(u) \/ u.netloc = <<>> \/ u.scheme = "" THEN Answer("400", d)
    ELSE Added(get_or_create_user(d, email), u, email, info, now)

\* lines 41-55 of scrape_product_price; a fault is an exception of the
\* database: of the insert of the price row ("store"), of the commit of
\* the new name ("rename")
Stored(d, product, info, fault, now) ==
    IF info.name # product.name
      THEN (IF fault = "rename" THEN Answer("error", d)
            ELSE Answer("success", update_product(d, product.id, info.name)))
    ELSE Answer("success", d)

Scraped(d, product, info, fault, now) ==
    IF info = NoInfo THEN Answer("error", d)
    ELSE IF fault = "store" THEN Answer("error", d)
    ELSE Stored(create_price_entry(d, product.id, info.price, now), product, info, fault, now)

\* scrape_product_price(product_id), the url of the product serving
\* the page
scrape_product_price(d, product_id, pg, fault, now) ==
    IF get_product(d, product_id) = {} THEN Answer("error", d)
    ELSE LET product == CHOOSE q \in get_product(d, product_id) : TRUE
         IN  Scraped(d, product, FactoryInfo(product.url, pg), fault, now)

\* the pages that the urls of the products serve
ServicePages ==
    {k \in DOMAIN Pages : Pages[k] \in {PageOf(Doms[2], Structs[2]), PageOf(Doms[4], Structs[5]),
                                        PageOf(Doms[5], Structs[1])}}

Emails == {"a@x.org", "b@x.org"}

\* the request or job op answered a, the rows before it being db
Answered(op, a) ==
    /\ db' = a.db
    /\ last' = [op |-> op, status |-> a.status, before |-> db]

\* POST /products
AddProduct(u, email, p) ==
    /\ db.serial < MaxProducts
    /\ Answered("add_product", add_product(db, u, email, FactoryInfo(u, Pages[p]), clock))
    /\ UNCHANGED <<adapters, pc, idx, url, page, log, result, lastAdd, calls, applied, queue, clock>>

\* DELETE /products/{product_id}
DeleteProduct(product_id) ==
    /\ Answered("delete_product",
                Answer(IF get_product(db, product_id) = {} THEN "404" ELSE "200",
                       delete_product(db, product_id)))
    /\ UNCHANGED <<adapters, pc, idx, url, page, log, result, lastAdd, calls, applied, queue, clock>>

\* schedule_scraping_jobs(): one job for each product that needs
\* scraping; when the query raises, no job
ScheduleScrapingJobs(fault) ==
    /\ Len(queue) + Cardinality(get_products_needing_scraping(db, clock)) <= MaxQueue
    /\ queue' = IF fault THEN queue
                ELSE queue \o InOrder(get_products_needing_scraping(db, clock))
    /\ last' = [op |-> "schedule_scraping_jobs",
                status |-> IF fault THEN "error" ELSE "success", before |-> db]
    /\ UNCHANGED <<adapters, pc, idx, url, page, log, result, lastAdd, calls, applied, db, clock>>

\* the worker takes the oldest job of the queue and runs it
Work(p, fault) ==
    /\ queue # <<>>
    /\ queue' = Tail(queue)
    /\ Answered("scrape_product_price",
                scrape_product_price(db, Head(queue), Pages[p], fault, clock))
    /\ UNCHANGED <<adapters, pc, idx, url, page, log, result, lastAdd, calls, applied, clock>>

\* time passes
Tick ==
    /\ clock + TickHours <= MaxClock
    /\ clock' = clock + TickHours
    /\ UNCHANGED <<adapters, pc, idx, url, page, log, result, lastAdd, calls, applied, db, queue, last>>

ServiceInit ==
    /\ adapters = DefaultAdapters
    /\ pc = "idle"
    /\ idx = 0
    /\ url = NoUrl
    /\ page = 0
    /\ log = <<>>
    /\ result = Pending
    /\ lastAdd = NoAdd
    /\ calls = <<>>
    /\ applied = NotApplied
    /\ ServiceIdle

ServiceNext ==
    \/ \E u \in Urls, email \in Emails, p \in ServicePages : AddProduct(u, email, p)
    \/ \E product_id \in 1..MaxProducts : DeleteProduct(product_id)
    \/ \E fault \in BOOLEAN : ScheduleScrapingJobs(fault)
    \/ \E p \in ServicePages, fault \in {"none", "store", "rename"} : Work(p, fault)
    \/ Tick

ServiceSpec == ServiceInit /\ [][ServiceNext]_vars

(* ------------------------------- claims ------------------------------- *)

\* the entries of the log for the adapter at position i
SupportsAt(i) == {k \in 1..Len(log) : log[k].op = "supports_url" /\ log[k].pos = i}

ExtractsAt(i) == {k \in 1..Len(log) : log[k].op = "get_product_info" /\ log[k].pos = i}

Last(q) == q[Len(q)]

\* C1: get_product_info consults the adapters in the order of the list
\* (supports_url of the first, its get_product_info when it supports the
\* url, then the next), the first ProductInfo an adapter returns is what
\* the call returns, and nothing is called on any adapter after that.
C1_FirstFoundWins ==
    /\ \A k \in 1..Len(log) : log[k].adapter = adapters[log[k].pos]
    /\ log # <<>> => log[1].op = "supports_url" /\ log[1].pos = 1
    /\ \A k \in 1..(Len(log) - 1) :
         \/ /\ log[k].op = "supports_url" /\ log[k].ret = "True"
            /\ log[k + 1].op = "get_product_info" /\ log[k + 1].pos = log[k].pos
         \/ /\ \/ log[k].op = "supports_url" /\ log[k].ret = "False"
               \/ log[k].op = "get_product_info" /\ log[k].ret \in {"None", "Raise"}
            /\ log[k + 1].op = "supports_url" /\ log[k + 1].pos = log[k].pos + 1
    /\ \A k \in 1..Len(log) :
         log[k].ret = "Found" => k = Len(log) /\ pc = "done" /\ result = log[k].info
    /\ pc = "done" /\ result.tag = "Found" =>
         log # <<>> /\ Last(log).ret = "Found" /\ Last(log).info = result

\* a call returned the ProductInfo of the second adapter it tried and left
\* an adapter after it untouched
C1_Witness ==
    /\ pc = "done" /\ result.tag = "Found"
    /\ Last(log).pos = 2 /\ Len(adapters) > 2
    /\ ExtractsAt(1) # {}

\* C2: an exception of an adapter's get_product_info does not leave the
\* call: the loop goes on with the next adapter, and a ProductInfo that a
\* later adapter returns is what the call returns (None when the adapter
\* that raised was the last of the list).
C2_ExtractFaultIsolated ==
    /\ log # <<>> /\ Last(log).op = "get_product_info" /\ Last(log).ret = "Raise" =>
         /\ idx = Last(log).pos + 1
         /\ \/ pc = "loop" /\ result = Pending
            \/ pc = "done" /\ result = NoInfo /\ Last(log).pos = Len(adapters)
    /\ pc = "raised" => Last(log).op = "supports_url"
    /\ \A k \in 1..Len(log) : \A j \in (k + 1)..Len(log) :
         (log[k].op = "get_product_info" /\ log[k].ret = "Raise" /\ log[j].ret = "Found")
           => pc = "done" /\ result = log[j].info

\* an adapter raised in get_product_info and a later one's ProductInfo
\* was returned
C2_Witness ==
    /\ pc = "done" /\ result.tag = "Found"
    /\ \E k \in 1..Len(log) : log[k].op = "get_product_info" /\ log[k].ret = "Raise"

\* the positions where JsonLdAdapter supported the url and returned None,
\* with HtmlAdapter as the next adapter of the list
JsonLdGaveNone ==
    {i \in 1..(Len(adapters) - 1) :
       /\ adapters[i] = "JsonLdAdapter" /\ adapters[i + 1] = "HtmlAdapter"
       /\ \E k \in ExtractsAt(i) : log[k].ret = "None"}

\* C3: when JsonLdAdapter supports the url and returns None, the call
\* still asks HtmlAdapter, which supports the url and is tried, and the
\* ProductInfo that HtmlAdapter returns is what the call returns.
C3_FallbackToHtml ==
    \A i \in JsonLdGaveNone :
       pc \in {"done", "raised"} =>
         /\ \E k \in SupportsAt(i + 1) : log[k].ret = "True"
         /\ ExtractsAt(i + 1) # {}
         /\ \A k \in ExtractsAt(i + 1) :
              log[k].ret = "Found" => pc = "done" /\ result = log[k].info

\* the default factory: JsonLdAdapter returned None, HtmlAdapter's
\* ProductInfo was returned
C3_Witness ==
    /\ pc = "done" /\ result.tag = "Found"
    /\ 1 \in JsonLdGaveNone
    /\ Last(log).adapter = "HtmlAdapter" /\ Last(log).pos = 2

\* C4: no exception leaves get_product_info, whatever the adapters of the
\* list do in supports_url and in get_product_info.
C4_NeverPropagates == pc # "raised"

\* every adapter of the list was asked and none is left that could still
\* return a ProductInfo: it did not support the url, or it supported it
\* and its get_product_info returned None or raised
AllTriedAndFailed ==
    \A i \in 1..Len(adapters) :
       \/ \E k \in SupportsAt(i) : log[k].ret = "False"
       \/ /\ \E k \in SupportsAt(i) : log[k].ret = "True"
          /\ \E k \in ExtractsAt(i) : log[k].ret \in {"None", "Raise"}

\* C5: a call that is over has returned None exactly when every adapter
\* of the list either did not support the url or supported it and
\* returned None or raised in get_product_info.
C5_NoneIffAllFailed ==
    pc \in {"done", "raised"} =>
       ((pc = "done" /\ result = NoInfo) <=> AllTriedAndFailed)

\* None was returned after one adapter did not support the url, one
\* returned None and one raised
C5_Witness ==
    /\ pc = "done" /\ result = NoInfo
    /\ \E k \in 1..Len(log) : log[k].ret = "False"
    /\ \E k \in 1..Len(log) : log[k].ret = "None"
    /\ \E k \in 1..Len(log) : log[k].ret = "Raise"

\* C6: after add_adapter(adapter, 0) the adapter is the first of the
\* list, and the next call of get_product_info asks it before any other.
C6_FrontIsTriedFirst ==
    lastAdd.priority = 0 =>
       /\ adapters[1] = lastAdd.adapter
       /\ \A k \in 1..Len(log) :
            /\ k = 1 => log[k].adapter = lastAdd.adapter /\ log[k].pos = 1
            /\ k > 1 /\ log[k].pos > 1 => SupportsAt(1) # {} /\ SetMin(SupportsAt(1)) < k

\* the second add_adapter put CustomAdapter first, it was asked first and
\* the call went on to the adapters registered before it
C6_Witness ==
    /\ lastAdd = [adapter |-> "CustomAdapter", priority |-> 0]
    /\ Len(adapters) = 4
    /\ Len(log) > 2 /\ log[1].adapter = "CustomAdapter" /\ Last(log).pos > 1

\* C7: a factory on which add_adapter was never called holds JsonLdAdapter
\* first and HtmlAdapter second, and nothing else.
C7_DefaultOrder ==
    lastAdd = NoAdd => adapters = <<"JsonLdAdapter", "HtmlAdapter">>

\* a call on the fresh factory asked JsonLdAdapter and then HtmlAdapter
C7_Witness ==
    /\ lastAdd = NoAdd
    /\ Len(log) > 2 /\ log[1].adapter = "JsonLdAdapter" /\ Last(log).adapter = "HtmlAdapter"

\* C8: no adapter object is at two positions of the list.
C8_UniqueByIdentity ==
    \A i, j \in 1..Len(adapters) : i # j => adapters[i] # adapters[j]

\* C9: the price of a ProductInfo that get_product_info returns lies in
\* [0.01, 999999].
C9_FoundPriceInRange ==
    pc = "done" /\ result.tag = "Found" =>
       MinPrice <= result.price /\ result.price <= MaxPrice

\* C10: the name of a ProductInfo that get_product_info returns has no
\* leading or trailing whitespace and at least 4 characters.
C10_FoundNameNormalized ==
    pc = "done" /\ result.tag = "Found" =>
       Strip(result.name) = result.name /\ Len(result.name) >= 4

\* C11: a call on the default factory with an http or https url, whose
\* page holds structured data with a Product that has a name and a price,
\* returns the ProductInfo with that name and that price, whether or not
\* the host of the url is one of known_sites (the requests that
\* JsonLdAdapter made, if any, were answered and gave the Product).
C11_StructuredProductFound ==
    (/\ pc = "done" /\ lastAdd = NoAdd
     /\ url.netloc # <<>> /\ url.scheme \in {"http", "https"}
     /\ JsonLd_get_product_info(Pages[page]).tag = "Found"
     /\ \A k \in 1..Len(log) :
          log[k].op = "get_product_info" /\ log[k].adapter = "JsonLdAdapter"
            => log[k].ret = "Found")
      => result = JsonLd_get_product_info(Pages[page])

\* a price text without its currency symbols and its commas
Cleaned(text) == SelectSeq(text, LAMBDA c : c \notin Currency \cup {","})

\* the number that the rest of the text is, read as a decimal
Normalized(text) == ParseFloat(Cleaned(text))

HasDigit(text) == \E k \in DOMAIN text : text[k] \in Digits

\* C12: both adapters take the currency symbols and the commas out of a
\* price text and read the rest as a decimal number: '$49.99' is 49.99,
\* '1,199.99' is 1199.99, '29' is 29.0, and a text that is no number
\* gives no price. (HtmlAdapter searches the text for a number, so it is
\* held to this on the price strings and on the texts without a digit.)
C12_PriceNormalization ==
    /\ applied.fn = "_parse_price_text" =>
         /\ ~HasDigit(applied.arg) => applied.out = NoFloat
         /\ applied.arg \in PriceStrings => applied.out = Normalized(applied.arg)
    /\ applied.fn = "_extract_price_from_offers" /\ IsDict(applied.arg) =>
         applied.out = Normalized(applied.arg.v.price.v)

\* the text of the first element of the page for the selector, stripped;
\* empty when the page has no such element
TextAt(pg, css) == IF css \in DOMAIN pg.dom THEN Strip(pg.dom[css][1]) ELSE <<>>

\* the page has a name of more than 3 characters there
ValidAt(pg, css) == Len(TextAt(pg, css)) > 3

Stated(offer) ==
    IF "price" \in DOMAIN offer.v
      THEN CASE offer.v.price.t = "num" -> Float(3000)
             [] offer.v.price.t = "str" /\ HasDigit(offer.v.price.v) -> Float(2500)
             [] OTHER -> NoFloat
    ELSE IF "lowPrice" \in DOMAIN offer.v THEN Float(1999)
    ELSE NoFloat

\* C14: for a list of offers, _extract_price_from_offers returns the
\* price of the first offer of the list that states a parseable price;
\* the offers before it that have no price, or a price that is no number,
\* are skipped, and a list without such an offer gives no price.
C14_FirstParseableOffer ==
    applied.fn = "_extract_price_from_offers" /\ IsList(applied.arg) =>
       LET list   == applied.arg.v
           priced == {k \in DOMAIN list : Stated(list[k]).ok}
       IN  applied.out = IF priced = {} THEN NoFloat
                         ELSE Stated(list[SetMin(priced)])

\* [{}, {"price": "25.00"}] gave 25.00
C14_Witness ==
    /\ applied.fn = "_extract_price_from_offers" /\ IsList(applied.arg)
    /\ applied.arg.v = <<EmptyDict, Dct([price |-> Str(<<"2", "5", ".", "0", "0">>)])>>
    /\ applied.out = Float(2500)

\* C15: HtmlAdapter.get_product_info returns a ProductInfo only when
\* _extract_name gave a name (stripped, more than 3 characters) and
\* _extract_price gave a price (in [0.01, 999999]), and then it is that
\* name and that price; when the name or the price is missing it returns
\* None, and it does not raise.
C15_FoundNeedsNameAndPrice ==
    applied.fn = "HtmlAdapter.get_product_info" /\ applied.arg.status = "ok" =>
       /\ applied.out.tag \in {"Found", "None"}
       /\ applied.out.tag = "Found" <=>
            (Html_extract_name(applied.arg) # NoName /\ Html_extract_price(applied.arg).ok)
       /\ applied.out.tag = "Found" =>
            /\ applied.out.name = Html_extract_name(applied.arg)
            /\ Strip(applied.out.name) = applied.out.name /\ Len(applied.out.name) > 3
            /\ applied.out.price = Html_extract_price(applied.arg).v
            /\ MinPrice <= applied.out.price /\ applied.out.price <= MaxPrice
       /\ applied.out.tag = "None" => applied.out = NoInfo

\* a page with a name and no price gave None
C15_Witness ==
    /\ applied.fn = "HtmlAdapter.get_product_info" /\ applied.arg.status = "ok"
    /\ Html_extract_name(applied.arg) # NoName
    /\ ~Html_extract_price(applied.arg).ok
    /\ applied.out = NoInfo

\* C16: get_product_info of HtmlAdapter and of JsonLdAdapter returns a
\* ProductInfo or None whatever happens inside it: when the request
\* fails (RequestException) and when the parser raises on what was
\* fetched, it returns None, and it never raises.
C16_FaultsBecomeNone ==
    applied.fn \in {"HtmlAdapter.get_product_info", "JsonLdAdapter.get_product_info"} =>
       /\ applied.out.tag \in {"Found", "None"}
       /\ applied.arg.status # "ok" => applied.out = NoInfo

\* the parser raised in HtmlAdapter.get_product_info, which returned None
C16_Witness ==
    /\ applied.fn = "HtmlAdapter.get_product_info"
    /\ applied.arg.status = ParserError.status
    /\ applied.out = NoInfo

\* C17: a call of get_product_info makes no request: neither the factory
\* nor an adapter it asks fetches the url.
C17_NoFetchInCall ==
    \A k \in 1..Len(log) : log[k].gets = 0

\* the calls of get_product_info that the log holds for an adapter
ExtractsOf(adapter) ==
    {k \in 1..Len(log) : log[k].op = "get_product_info" /\ log[k].adapter = adapter}

\* C18: within one call, get_product_info is invoked at most once on
\* each adapter of the list, also after it returned None or raised.
C18_ExtractAtMostOnce ==
    \A adapter \in Adapters : Cardinality(ExtractsOf(adapter)) <= 1

\* C20: HtmlAdapter.supports_url returns True exactly for a url that
\* has a host and the scheme http or https; it returns False for a text
\* without scheme and host ('not-a-url'), for another scheme
\* ('ftp://x.org') and for a url that urlparse rejects, and it never
\* raises.
C20_HtmlSupportsHttpWithHost ==
    applied.fn = "HtmlAdapter.supports_url" =>
       /\ applied.out \in {"True", "False"}
       /\ applied.out = "True" <=>
            /\ ~UrlparseRaises(applied.arg)
            /\ Hostname(applied.arg) # <<>>
            /\ applied.arg.scheme \in {"http", "https"}

\* what an adapter did when it was called, as the log records it
Outcome(entry) == [ret |-> entry.ret, info |-> entry.info, gets |-> entry.gets]

\* lg, from its entry k on, is what a call that runs alone does from
\* position i of the list on for the url u that serves page p, and res is
\* what that call returns
RECURSIVE SoloRun(_, _, _, _, _, _, _)
SoloRun(list, u, p, lg, res, i, k) ==
    IF i > Len(list) THEN k = Len(lg) + 1 /\ res = NoInfo
    ELSE /\ k <= Len(lg)
         /\ lg[k].op = "supports_url" /\ lg[k].pos = i /\ lg[k].adapter = list[i]
         /\ lg[k].ret \in SupportsOutcomes(list[i], u)
         /\ CASE lg[k].ret = "False" -> SoloRun(list, u, p, lg, res, i + 1, k + 1)
              [] lg[k].ret = "Raise" -> k = Len(lg) /\ res = Raised
              [] lg[k].ret = "True"  ->
                   /\ k + 1 <= Len(lg)
                   /\ lg[k + 1].op = "get_product_info" /\ lg[k + 1].pos = i
                   /\ lg[k + 1].adapter = list[i]
                   /\ Outcome(lg[k + 1]) \in ExtractOutcomes(list[i], p)
                   /\ IF lg[k + 1].ret = "Found"
                        THEN k + 1 = Len(lg) /\ res = lg[k + 1].info
                        ELSE SoloRun(list, u, p, lg, res, i + 1, k + 2)

\* the call of thread t is over and went as a call that runs alone goes
AsAlone(t) ==
    calls[t].pc \in {"done", "raised"} =>
       SoloRun(adapters, calls[t].url, calls[t].page, calls[t].log, calls[t].result, 1, 1)

\* C19: a call of get_product_info never changes the list of adapters,
\* and when threads call get_product_info at the same time (and none
\* calls add_adapter) each call asks the adapters and returns what it
\* would when running alone, however the steps of the calls interleave.
C19_ConcurrentCallsAsAlone ==
    /\ [](\A t \in Threads : AsAlone(t))
    /\ [][adapters' = adapters]_vars

\* both threads have a call that is over, each began before the other
\* ended, and they returned different results
C19_Witness ==
    /\ \A t \in Threads : calls[t].pc = "done"
    /\ calls["t1"].result.tag = "Found" /\ calls["t2"].result.tag = "None"
    /\ Len(calls["t1"].log) > 2 /\ Len(calls["t2"].log) > 2

\* the hostname of the url holds a known site when case is ignored
OnAllowList(u) == \E site \in known_sites : Contains(Hostname(u), site)

\* C21: JsonLdAdapter.supports_url returns True exactly when the
\* hostname of the url, compared without regard to case, contains one of
\* the known sites; it returns False for a host that contains none.
C21_JsonLdSupportsAllowListed ==
    applied.fn = "JsonLdAdapter.supports_url" =>
       (applied.out = "True" <=> OnAllowList(applied.arg))

\* C21 as the code has it: JsonLdAdapter.supports_url returns True exactly
\* when the scheme of the url is http or https and its hostname, compared
\* without regard to case, contains one of the known sites; otherwise,
\* and for a url that urlparse rejects, it returns False, and it never
\* raises.
C21_JsonLdSupportsHttpAllowListed ==
    applied.fn = "JsonLdAdapter.supports_url" =>
       /\ applied.out \in {"True", "False"}
       /\ applied.out = "True" <=>
            /\ ~UrlparseRaises(applied.arg)
            /\ applied.arg.scheme \in {"http", "https"}
            /\ OnAllowList(applied.arg)

\* 'https://www.EBAY.de' is supported
C21_Witness ==
    /\ applied.fn = "JsonLdAdapter.supports_url"
    /\ applied.arg = [scheme |-> "https",
                      netloc |-> <<"w", "w", "w", ".", "E", "B", "A", "Y", ".", "d", "e">>]
    /\ applied.out = "True"

\* the fraction q is n/d, for a d above 0
IsFraction(q, n, d) == q.den # 0 /\ q.num * d = n * q.den

\* C22: calculate_price_drop_percentage(current, average) returns
\* (average - current) / average * 100 whenever average > 0 (which is 0
\* for equal prices and negative when the current price is the higher),
\* returns 0 whenever average <= 0, and never divides by zero.
C22_PriceDropPercentage ==
    applied.fn = "calculate_price_drop_percentage" =>
       /\ applied.out.ok
       /\ applied.arg.average_price > 0 =>
             IsFraction(applied.out,
                        (applied.arg.average_price - applied.arg.current_price) * 100,
                        applied.arg.average_price)
       /\ (applied.arg.average_price > 0
             /\ applied.arg.current_price = applied.arg.average_price) =>
             applied.out.num = 0
       /\ (applied.arg.average_price > 0
             /\ applied.arg.current_price > applied.arg.average_price) =>
             applied.out.num * applied.out.den < 0
       /\ applied.arg.average_price <= 0 => applied.out.num = 0

\* a current price of 4 under an average of 5 is a drop of 20 percent
C22_Witness ==
    /\ applied.fn = "calculate_price_drop_percentage"
    /\ applied.arg = [current_price |-> 4, average_price |-> 5]
    /\ IsFraction(applied.out, 20, 1)

\* what the value under one key of an offer coerces to
CoercedAt(offer, k) == CoercePrice(Walk(offer, offer_price_keys[k]))

\* the first of the keys of an offer, in their order, whose value
\* coerces to a number
FirstCoercible(offer, good) == IF good = {} THEN NoFloat ELSE CoercedAt(offer, SetMin(good))

\* C23: within one offer the keys price, lowPrice, highPrice and
\* priceSpecification/price are tried in that order and the offer yields
\* the first of them whose value coerces to a number, also when an
\* earlier key is present with a value that does not coerce.
C23_FirstCoercibleKey ==
    (applied.fn = "_extract_price_from_offers" /\ IsDict(applied.arg)) =>
       applied.out = FirstCoercible(applied.arg,
                       {k \in DOMAIN offer_price_keys : CoercedAt(applied.arg, k).ok})

\* the call returned info after trying the encodings tried
ReturnedAfter(info, tried) == applied.out = info /\ applied.tried = tried

\* what get_product_info returns and tries when the linked data yield
\* ld and the microdata yield md
InPriority(ld, md) ==
    IF ld # NoInfo THEN ReturnedAfter(ld, <<"json-ld">>)
    ELSE IF md # NoInfo THEN ReturnedAfter(md, <<"json-ld", "microdata">>)
    ELSE ReturnedAfter(NoInfo, <<"json-ld", "microdata", "rdfa">>)

\* C24: JsonLdAdapter.get_product_info tries the encodings in a fixed
\* order: it returns the ProductInfo of the linked data when they yield
\* one, tries the microdata only when the linked data yield none, and
\* tries RDFa (which never yields) only when both yield none; a Product
\* of the linked data without name or price does not keep a valid
\* Product of the microdata from being returned.
C24_EncodingPriority ==
    (applied.fn = "JsonLdAdapter.get_product_info" /\ applied.arg.status = "ok") =>
       InPriority(JsonLd_extract_from_jsonld(applied.arg.jsonld),
                  JsonLd_extract_from_microdata(applied.arg.microdata))

\* the linked data hold a Product without offers, and the Product of
\* the microdata is returned
C24_Witness ==
    /\ applied.fn = "JsonLdAdapter.get_product_info"
    /\ applied.arg.status = "ok"
    /\ applied.arg.jsonld # <<>>
    /\ applied.out.tag = "Found"
    /\ applied.tried = <<"json-ld", "microdata">>

\* the fields of the Product of a page that EncodedProduct builds
ProductFields(response) ==
    IF response.jsonld # <<>> THEN response.jsonld[1].v
    ELSE response.microdata[1].v.properties.v

\* C25: for a Product of the linked data or of the microdata the offers
\* may be one object or a list of objects: one offer object with a
\* parseable price yields that price as a list of that one offer does.
C25_SingleOfferAsList ==
    (applied.fn = "JsonLdAdapter.get_product_info" /\ applied.kind = "product"
       /\ "name" \in DOMAIN ProductFields(applied.arg)) =>
       (applied.out.tag = "Found" /\ applied.out.price = 2500)

\* the name that the fields of a Product state: the value of name, of
\* title when there is no name, and the first element of a list
FirstElement(value) == IF IsList(value) THEN value.v[1].v ELSE value.v

StatedName(fields) ==
    FirstElement(IF "name" \in DOMAIN fields THEN fields.name ELSE fields.title)

\* C26: for a Product of the linked data or of the microdata the name
\* is the first value present among the keys name and title, in that
\* order (title when there is no name), and the first element of that
\* value when it is a list.
C26_NameFromNameOrTitle ==
    (applied.fn = "JsonLdAdapter.get_product_info" /\ applied.kind = "product"
       /\ IsList(ProductFields(applied.arg).offers)) =>
       (applied.out.tag = "Found" /\ applied.out.name = StatedName(ProductFields(applied.arg)))

\* the texts of all the elements that the price selectors match on a
\* page, in selector order and then element order, from selector k on
RECURSIVE TextsFrom(_, _)
TextsFrom(pg, k) ==
    IF k > Len(price_selectors) THEN <<>>
    ELSE TextsOfSelector(pg, price_selectors[k]) \o TextsFrom(pg, k + 1)

\* the first match of a list, in its order, that normalizes within the
\* range
FirstInRange(ms, good) == IF good = {} THEN NoFloat ELSE CleanMatch(ms[SetMin(good)])

\* the first match of a text, in pattern order and then match order,
\* that normalizes within the range
FirstOfText(text) ==
    FirstInRange(AllMatches(text, price_patterns),
                 {j \in 1..Len(AllMatches(text, price_patterns)) :
                    Accepted(CleanMatch(AllMatches(text, price_patterns)[j]))})

\* _extract_price accepted the first match in range of the first text
\* that has one and evaluated nothing after that text
HaltsAtFirst(texts, good) ==
    IF good = {} THEN applied.out = NoFloat /\ applied.tried = texts
    ELSE /\ applied.out = FirstOfText(texts[SetMin(good)])
         /\ applied.tried = SubSeq(texts, 1, SetMin(good))

\* C27: _extract_price accepts the first numeric match, taken in
\* selector order (and element order under a selector) and then pattern
\* order (symbol before, symbol after, bare number), that normalizes
\* within [0.01, 999999]; matches out of the range or that do not parse
\* are skipped and the search goes on, and after the accepted match no
\* further selector, element or pattern is evaluated.
C27_FirstMatchInRange ==
    applied.fn = "_extract_price" =>
       HaltsAtFirst(TextsFrom(applied.arg, 1),
                    {k \in 1..Len(TextsFrom(applied.arg, 1)) :
                       FirstOfText(TextsFrom(applied.arg, 1)[k]).ok})

\* prices out of the range were skipped under the first selector and
\* the price of a later selector was accepted
C27_Witness ==
    /\ applied.fn = "_extract_price"
    /\ Len(applied.tried) = 3
    /\ applied.out = Float(MaxPrice)

\* C28: a POST /products request that fails, with 400 for an invalid URL or
\* with 422 because no product was extracted, leaves the database as it
\* was: no user, product or price-history row is created by it.
C28_FailedAddLeavesDatabase ==
    (last.op = "add_product" /\ last.status \in {"400", "422"}) => db = last.before

\* the price-history rows that the last request or job added
PriceRowsAdded == Len(db.prices) - Len(last.before.prices)

\* C29: scrape_product_price returns status "success" exactly when it
\* appended one price-history row for the product, and when it returns
\* status "error" the call added no price-history row.
C29_SuccessIffOnePriceRow ==
    (last.op = "scrape_product_price") =>
        /\ (last.status = "success") <=> (PriceRowsAdded = 1)
        /\ (last.status = "error") => (db.prices = last.before.prices)

\* C30: no two pending jobs of scraping_queue are for the same product, so
\* two price-history rows of one product lie at least 23 hours apart.
C30_OnePendingJobPerProduct ==
    /\ \A i, j \in DOMAIN queue : (queue[i] = queue[j]) => (i = j)
    /\ \A i, j \in DOMAIN db.prices :
          (i < j /\ db.prices[i].product_id = db.prices[j].product_id)
              => (db.prices[j].date - db.prices[i].date >= ScrapeWindow)

====
